---- MODULE Spec2Model ----
(***************************************************************************)
(* Model of services/kube-eleven/server/domain/utils/kube-eleven:          *)
(* KubeEleven.BuildCluster and the functions it calls (generateFiles,      *)
(* generateTemplateData, getClusterNodes, findAPIEndpoint).                *)
(*                                                                         *)
(* Go strings are TLA+ strings; fmt.Sprintf and filepath.Join are string   *)
(* concatenation (\o), strings.TrimPrefix is SubSeq.  A *pb.Node pointer   *)
(* is the position <<pool, node>> of the node in the cluster's node pools, *)
(* the nil pointer is NilNode.                                             *)
(***************************************************************************)
EXTENDS Naturals, Sequences, FiniteSets, TLC

VARIABLES
    K8sCluster,          \* k.K8sCluster of each KubeEleven: Name, Hash, NodePools, Kubeconfig
    LBClusters,          \* k.LBClusters of each KubeEleven
    outputDirectory,     \* k.outputDirectory
    pc,                  \* the statement of BuildCluster each KubeEleven is at
    err,                 \* the error BuildCluster returned (nil when none)
    data,                \* templateParameters, the templateData built by generateTemplateData
    kubeconfigAsString,  \* the local of BuildCluster read back from the kubeconfig file
    dirs,                \* the file system: the directories that exist
    files,               \* the file system: <<directory, file name>> -> content
    trace,               \* history: the file-system and tool stages this build ran, with their outcome
    entry,               \* history: k.K8sCluster as it was when BuildCluster was entered
    runs                 \* how many times BuildCluster was called on each KubeEleven

vars == <<K8sCluster, LBClusters, outputDirectory, pc, err, data, kubeconfigAsString,
          dirs, files, trace, entry, runs>>

----------------------------------------------------------------------------
(* Bounds of the model *)

\* the KubeEleven values that may run BuildCluster concurrently
NBuilds == 2
\* the most node pools of a cluster
MaxPools == 2
\* the most nodes of a cluster, over all its pools
MaxNodes == 3
\* the most attached load-balancer clusters
MaxLBs == 2
\* the most calls of BuildCluster on one KubeEleven
MaxRuns == 2

Builds == 1..NBuilds

----------------------------------------------------------------------------
(* Constants of the package *)

generatedKubeoneManifestName == "kubeone.yaml"
sshKeyFileName == "private.pem"
baseDirectory == "services/kube-eleven/server"
outputDirectoryName == "clusters"

\* pb.NodeType
NodeType_worker == "worker"
NodeType_master == "master"
NodeType_apiEndpoint == "apiEndpoint"
NodeTypes == {NodeType_worker, NodeType_master, NodeType_apiEndpoint}

\* pb.RoleType
RoleType_ApiServer == "ApiServer"
RoleType_Ingress == "Ingress"

\* the nil *pb.Node
NilNode == << >>

\* the nil error
nil == [msg |-> "nil"]

\* fmt.Errorf("<msg> <ctx> : %w", cause)
Errorf(msg, ctx, cause) == [msg |-> msg, ctx |-> ctx, wraps |-> cause]

----------------------------------------------------------------------------
(* Strings *)

\* filepath.Join of path elements that hold no separator and no dot element
\* (Clean then changes nothing)
Join3(a, b, c) == a \o "/" \o b \o "/" \o c

\* mutant: the length of the prefix is cut off without comparing it
TrimPrefixUncompared(s, prefix) ==
    IF Len(s) >= Len(prefix)
    THEN SubSeq(s, Len(prefix) + 1, Len(s))
    ELSE s

\* strings.TrimPrefix
TrimPrefix(s, prefix) ==
    IF Len(s) >= Len(prefix) /\ SubSeq(s, 1, Len(prefix)) = prefix
    THEN SubSeq(s, Len(prefix) + 1, Len(s))
    ELSE s

\* fmt.Sprintf("%s-%s", name, hash)
clusterID(name, hash) == name \o "-" \o hash

\* fmt.Sprintf("%s-kubeconfig", name)
kubeconfigFileName(name) == name \o "-kubeconfig"

----------------------------------------------------------------------------
(* getClusterNodes *)

\* the nodes of the pools in pool-then-node order, as positions
RECURSIVE Positions(_, _)
Positions(pools, p) ==
    IF p > Len(pools) THEN << >>
    ELSE [n \in 1..Len(pools[p]) |-> <<p, n>>] \o Positions(pools, p + 1)

NodeAt(pools, pos) == pools[pos[1]][pos[2]]

\* mutants of the candidate choice: the first tagged node is kept, a later
\* master displaces the candidate, a worker is adopted
nextCandidateFirstTagged(cand, node, pos) ==
    IF node.NodeType = NodeType_apiEndpoint /\ (cand = NilNode)
    THEN pos
    ELSE IF node.NodeType = NodeType_master /\ cand = NilNode
         THEN pos
         ELSE cand
nextCandidateLastMaster(cand, node, pos) ==
    IF node.NodeType = NodeType_apiEndpoint
    THEN pos
    ELSE IF node.NodeType = NodeType_master
         THEN pos
         ELSE cand
nextCandidateWorker(cand, node, pos) ==
    IF node.NodeType = NodeType_apiEndpoint
    THEN pos
    ELSE IF cand = NilNode
         THEN pos
         ELSE cand

\* mutant: a node already tagged api-endpoint is not recognised, only masters are
nextCandidateMasterOnly(cand, node, pos) ==
    IF node.NodeType = NodeType_master /\ cand = NilNode
    THEN pos
    ELSE cand

\* the if / else if of the inner loop: the potential endpoint node after `node`
nextCandidate(cand, node, pos) ==
    IF node.NodeType = NodeType_apiEndpoint
    THEN pos
    ELSE IF node.NodeType = NodeType_master /\ cand = NilNode
         THEN pos
         ELSE cand

\* the two loops, as far as potentialEndpointNode goes
RECURSIVE scanNodes(_, _, _)
scanNodes(pools, positions, cand) ==
    IF positions = << >> THEN cand
    ELSE scanNodes(pools, Tail(positions),
                   nextCandidate(cand, NodeAt(pools, Head(positions)), Head(positions)))

\* the NodepoolInfo of node pool p (its sanitised region, zone and provider
\* names are strings no decision reads; they are left out)
nodepoolInfo(cluster, p) ==
    LET nodepool == cluster.NodePools[p]
    IN [NodepoolName |-> nodepool.Name,
        Nodes |-> [n \in 1..Len(nodepool.Nodes) |->
                     [Name |-> TrimPrefix(nodepool.Nodes[n].Name,
                                          cluster.Name \o "-" \o cluster.Hash \o "-"),
                      Node |-> <<p, n>>]]]

\* mutant: a node pool with no nodes gets no NodepoolInfo
getClusterNodesSkipEmpty(cluster) ==
    LET pools == [p \in 1..Len(cluster.NodePools) |-> cluster.NodePools[p].Nodes]
    IN [nodepoolInfos |->
          SelectSeq([p \in 1..Len(cluster.NodePools) |-> nodepoolInfo(cluster, p)],
                    LAMBDA info : Len(info.Nodes) > 0),
        potentialEndpointNode |-> scanNodes(pools, Positions(pools, 1), NilNode)]

\* returns the slice of NodepoolInfo and the potential endpoint node
getClusterNodes(cluster) ==
    LET pools == [p \in 1..Len(cluster.NodePools) |-> cluster.NodePools[p].Nodes]
    IN [nodepoolInfos |-> [p \in 1..Len(cluster.NodePools) |->
                             nodepoolInfo(cluster, p)],
        potentialEndpointNode |-> scanNodes(pools, Positions(pools, 1), NilNode)]

----------------------------------------------------------------------------
(* findAPIEndpoint *)

\* mutant: the target of the load balancer is not compared
lbQualifiesAnyTarget(lb, name) ==
    \E r \in 1..Len(lb.Roles) : lb.Roles[r].RoleType = RoleType_ApiServer

\* the LB cluster is attached to the target cluster and has a role of type ApiServer
lbQualifies(lb, name) ==
    /\ lb.TargetedK8S = name
    /\ \E r \in 1..Len(lb.Roles) : lb.Roles[r].RoleType = RoleType_ApiServer

\* the loop over k.LBClusters: the index of the LB cluster whose endpoint is
\* returned, 0 when the loop ends without returning
RECURSIVE firstApiServerLB(_, _, _)
firstApiServerLB(lbs, name, i) ==
    IF i > Len(lbs) THEN 0
    ELSE IF lbQualifies(lbs[i], name) THEN i
    ELSE firstApiServerLB(lbs, name, i + 1)

\* potentialEndpointNode.NodeType = pb.NodeType_apiEndpoint
setNodeType(nodePools, pos, t) ==
    [nodePools EXCEPT ![pos[1]].Nodes[pos[2]].NodeType = t]

\* the endpoint returned, and the node pools as the call leaves them
findAPIEndpoint(cluster, lbs, cand) ==
    LET i == firstApiServerLB(lbs, cluster.Name, 1)
    IN IF i # 0 THEN [apiEndpoint |-> lbs[i].Dns.Endpoint, NodePools |-> cluster.NodePools]
       ELSE IF cand # NilNode
            THEN [apiEndpoint |-> cluster.NodePools[cand[1]].Nodes[cand[2]].Public,
                  NodePools |-> setNodeType(cluster.NodePools, cand, NodeType_apiEndpoint)]
            ELSE [apiEndpoint |-> "", NodePools |-> cluster.NodePools]

----------------------------------------------------------------------------
(* generateTemplateData *)

\* the templateData returned (its KubernetesVersion is copied from the cluster
\* and read by no decision; it is left out)
templateDataOf(cluster, lbs) ==
    LET got == getClusterNodes(cluster)
        found == findAPIEndpoint(cluster, lbs, got.potentialEndpointNode)
    IN [Nodepools |-> got.nodepoolInfos,
        APIEndpoint |-> found.apiEndpoint,
        ClusterName |-> cluster.Name]

\* k.K8sCluster after generateTemplateData: findAPIEndpoint writes the node type
clusterAfterTemplateData(cluster, lbs) ==
    LET got == getClusterNodes(cluster)
        found == findAPIEndpoint(cluster, lbs, got.potentialEndpointNode)
    IN [cluster EXCEPT !.NodePools = found.NodePools]

\* the templateData before generateTemplateData ran
noData == [Nodepools |-> << >>, APIEndpoint |-> "", ClusterName |-> ""]

\* mutant: an endpoint that cannot be resolved is returned as an error
generateTemplateDataStrict(b) ==
    /\ pc[b] = "generateTemplateData"
    /\ data' = [data EXCEPT ![b] = templateDataOf(K8sCluster[b], LBClusters[b])]
    /\ K8sCluster' = [K8sCluster EXCEPT
                        ![b] = clusterAfterTemplateData(K8sCluster[b], LBClusters[b])]
    /\ IF templateDataOf(K8sCluster[b], LBClusters[b]).APIEndpoint = ""
       THEN /\ pc' = [pc EXCEPT ![b] = "returned"]
            /\ err' = [err EXCEPT ![b] =
                         Errorf("error while generating files for", K8sCluster[b].Name,
                                [msg |-> "no API endpoint specified"])]
       ELSE /\ pc' = [pc EXCEPT ![b] = "Generate"]
            /\ err' = err
    /\ UNCHANGED <<LBClusters, outputDirectory, kubeconfigAsString, dirs, files,
                   trace, entry, runs>>

generateTemplateData(b) ==
    /\ pc[b] = "generateTemplateData"
    /\ data' = [data EXCEPT ![b] = templateDataOf(K8sCluster[b], LBClusters[b])]
    /\ K8sCluster' = [K8sCluster EXCEPT
                        ![b] = clusterAfterTemplateData(K8sCluster[b], LBClusters[b])]
    /\ pc' = [pc EXCEPT ![b] = "Generate"]
    /\ UNCHANGED <<LBClusters, outputDirectory, err, kubeconfigAsString, dirs, files,
                   trace, entry, runs>>

----------------------------------------------------------------------------
(* The file system and the collaborators of the package *)

dirExists(dir) == dir \in dirs

fileExists(dir, name) == <<dir, name>> \in DOMAIN files

\* the files after writing `content` to the file `name` of `dir`
writeFile(dir, name, content) ==
    [f \in DOMAIN files \cup {<<dir, name>>} |->
       IF f = <<dir, name>> THEN content ELSE files[f]]

\* the files left after os.RemoveAll(dir)
removeAll(dir) == [f \in {g \in DOMAIN files : g[1] # dir} |-> files[f]]

\* the manifest rendered from the template (the template is not part of the
\* package: the text holds what the view holds that a decision produced)
render(d) == "name: " \o d.ClusterName \o " endpoint: " \o d.APIEndpoint

\* the causes of the errors the collaborators return
ioError == [msg |-> "i/o error"]
templateError == [msg |-> "template error"]
toolError == [msg |-> "exit status 1"]

\* the kubeconfig the tool may leave in the kubeconfig file
ToolKubeconfigs == {"", "kc-new"}

\* Templates{Directory: dir}.Generate: creates the directory when it is missing
\* and writes the rendered manifest into it; when it fails the directory may
\* or may not have been created
TemplatesGenerate(dir, name, d, ok) ==
    IF ok
    THEN /\ dirs' = dirs \cup {dir}
         /\ files' = writeFile(dir, name, render(d))
    ELSE /\ dirs' \in {dirs, dirs \cup {dir}}
         /\ files' = files

\* utils.CreateKeyFile: writes the key into the file `name` of an existing directory
UtilsCreateKeyFile(key, dir, name, ok) ==
    /\ ok => dirExists(dir)
    /\ files' = IF ok THEN writeFile(dir, name, key) ELSE files

\* os.WriteFile: writes the file of an existing directory
OsWriteFile(dir, name, content, ok) ==
    /\ ok => dirExists(dir)
    /\ files' = IF ok THEN writeFile(dir, name, content) ELSE files

\* Kubeone{ConfigDirectory: dir}.Apply: the tool runs in an existing directory
\* and, when it succeeds, leaves the cluster's kubeconfig in the kubeconfig file
KubeoneApply(dir, kubeconfigFile, ok) ==
    /\ ok => dirExists(dir)
    /\ IF ok
       THEN \E kc \in ToolKubeconfigs : files' = writeFile(dir, kubeconfigFile, kc)
       ELSE files' = files

\* os.RemoveAll: removes the directory and all it holds, or fails
OsRemoveAll(dir, ok) ==
    IF ok
    THEN /\ dirs' = dirs \ {dir}
         /\ files' = removeAll(dir)
    ELSE UNCHANGED <<dirs, files>>

----------------------------------------------------------------------------
(* BuildCluster, statement by statement *)

\* return err
return(b, e) ==
    /\ pc' = [pc EXCEPT ![b] = "returned"]
    /\ err' = [err EXCEPT ![b] = e]

\* the statement succeeded: on to the next one
goto(b, next) ==
    /\ pc' = [pc EXCEPT ![b] = next]
    /\ err' = err

\* the error generateFiles returns, as BuildCluster wraps it
generateFilesError(b, e) ==
    Errorf("error while generating files for", K8sCluster[b].Name, e)

\* history: the stage ran in this build, with this outcome
ran(b, stage, ok) ==
    trace' = [trace EXCEPT ![b] = Append(@, [stage |-> stage, ok |-> ok])]

\* the caller calls BuildCluster: clusterID and k.outputDirectory are computed
BuildCluster(b) ==
    /\ pc[b] \in {"idle", "returned"}
    /\ runs[b] < MaxRuns
    /\ runs' = [runs EXCEPT ![b] = @ + 1]
    /\ outputDirectory' =
         [outputDirectory EXCEPT
            ![b] = Join3(baseDirectory, outputDirectoryName,
                         clusterID(K8sCluster[b].Name, K8sCluster[b].Hash))]
    /\ entry' = [entry EXCEPT ![b] = K8sCluster[b]]
    /\ trace' = [trace EXCEPT ![b] = << >>]
    /\ data' = [data EXCEPT ![b] = noData]
    /\ kubeconfigAsString' = [kubeconfigAsString EXCEPT ![b] = ""]
    /\ pc' = [pc EXCEPT ![b] = "LoadTemplate"]
    /\ err' = [err EXCEPT ![b] = nil]
    /\ UNCHANGED <<K8sCluster, LBClusters, dirs, files>>

\* generateFiles: templateUtils.LoadTemplate
LoadTemplate(b) ==
    /\ pc[b] = "LoadTemplate"
    /\ \E ok \in BOOLEAN :
          IF ok
          THEN goto(b, "generateTemplateData")
          ELSE return(b, generateFilesError(b,
                    Errorf("error while loading a kubeone template", "", templateError)))
    /\ UNCHANGED <<K8sCluster, LBClusters, outputDirectory, data, kubeconfigAsString,
                   dirs, files, trace, entry, runs>>

\* generateFiles: the manifest is generated from the template
Generate(b) ==
    /\ pc[b] = "Generate"
    /\ \E ok \in BOOLEAN :
          /\ TemplatesGenerate(outputDirectory[b], generatedKubeoneManifestName,
                               data[b], ok)
          /\ ran(b, "manifest", ok)
          /\ IF ok
             THEN goto(b, "CreateKeyFile")
             ELSE return(b, generateFilesError(b,
                       Errorf("error while generating from kubeone template",
                              generatedKubeoneManifestName, templateError)))
    /\ UNCHANGED <<K8sCluster, LBClusters, outputDirectory, data, kubeconfigAsString,
                   entry, runs>>

\* generateFiles: the file with the SSH key is created
CreateKeyFile(b) ==
    /\ pc[b] = "CreateKeyFile"
    /\ \E ok \in BOOLEAN :
          /\ UtilsCreateKeyFile(K8sCluster[b].PrivateKey, outputDirectory[b],
                                sshKeyFileName, ok)
          /\ ran(b, "key", ok)
          /\ IF ok
             THEN goto(b, "WriteFile")
             ELSE return(b, generateFilesError(b,
                       Errorf("error while creating SSH key file", "", ioError)))
    /\ UNCHANGED <<K8sCluster, LBClusters, outputDirectory, data, kubeconfigAsString,
                   dirs, entry, runs>>

\* mutant: a failed write of the kubeconfig file is tried again
WriteFileRetried(b) ==
    /\ pc[b] = "WriteFile"
    /\ \E ok \in BOOLEAN :
          /\ OsWriteFile(outputDirectory[b], kubeconfigFileName(K8sCluster[b].Name),
                         K8sCluster[b].Kubeconfig, ok)
          /\ ran(b, "kubeconfig", ok)
          /\ IF ok
             THEN goto(b, "Apply")
             ELSE goto(b, "WriteFile")
    /\ UNCHANGED <<K8sCluster, LBClusters, outputDirectory, data, kubeconfigAsString,
                   dirs, entry, runs>>

\* generateFiles: the cluster's kubeconfig is written to the kubeconfig file
WriteFile(b) ==
    /\ pc[b] = "WriteFile"
    /\ \E ok \in BOOLEAN :
          /\ OsWriteFile(outputDirectory[b], kubeconfigFileName(K8sCluster[b].Name),
                         K8sCluster[b].Kubeconfig, ok)
          /\ ran(b, "kubeconfig", ok)
          /\ IF ok
             THEN goto(b, "Apply")
             ELSE return(b, generateFilesError(b,
                       Errorf("error while writing cluster-kubeconfig file in",
                              outputDirectory[b], ioError)))
    /\ UNCHANGED <<K8sCluster, LBClusters, outputDirectory, data, kubeconfigAsString,
                   dirs, entry, runs>>

\* mutant: the error of kubeone apply is dropped and the build goes on
ApplyErrorIgnored(b) ==
    /\ pc[b] = "Apply"
    /\ \E ok \in BOOLEAN :
          /\ KubeoneApply(outputDirectory[b], kubeconfigFileName(K8sCluster[b].Name), ok)
          /\ ran(b, "apply", ok)
          /\ goto(b, "readKubeconfigFromFile")
    /\ UNCHANGED <<K8sCluster, LBClusters, outputDirectory, data, kubeconfigAsString,
                   dirs, entry, runs>>

\* mutant: the node roles the build was entered with are restored when
\* kubeone apply fails
ApplyRollback(b) ==
    /\ pc[b] = "Apply"
    /\ \E ok \in BOOLEAN :
          /\ KubeoneApply(outputDirectory[b], kubeconfigFileName(K8sCluster[b].Name), ok)
          /\ ran(b, "apply", ok)
          /\ IF ok
             THEN /\ K8sCluster' = K8sCluster
                  /\ goto(b, "readKubeconfigFromFile")
             ELSE /\ K8sCluster' = [K8sCluster EXCEPT
                                      ![b].NodePools = entry[b].NodePools]
                  /\ return(b, Errorf("error while running kubeone apply in",
                                      outputDirectory[b], toolError))
    /\ UNCHANGED <<LBClusters, outputDirectory, data, kubeconfigAsString,
                   dirs, entry, runs>>

\* mutant: the directory is removed when kubeone apply fails
ApplyCleanupOnFailure(b) ==
    /\ pc[b] = "Apply"
    /\ \E ok \in BOOLEAN :
          /\ ok => dirExists(outputDirectory[b])
          /\ IF ok
             THEN /\ KubeoneApply(outputDirectory[b],
                                  kubeconfigFileName(K8sCluster[b].Name), ok)
                  /\ dirs' = dirs
                  /\ goto(b, "readKubeconfigFromFile")
             ELSE /\ OsRemoveAll(outputDirectory[b], TRUE)
                  /\ return(b, Errorf("error while running kubeone apply in",
                                      outputDirectory[b], toolError))
          /\ ran(b, "apply", ok)
    /\ UNCHANGED <<K8sCluster, LBClusters, outputDirectory, data, kubeconfigAsString,
                   entry, runs>>

\* Execute Kubeone apply
Apply(b) ==
    /\ pc[b] = "Apply"
    /\ \E ok \in BOOLEAN :
          /\ KubeoneApply(outputDirectory[b], kubeconfigFileName(K8sCluster[b].Name), ok)
          /\ ran(b, "apply", ok)
          /\ IF ok
             THEN goto(b, "readKubeconfigFromFile")
             ELSE return(b, Errorf("error while running kubeone apply in",
                                   outputDirectory[b], toolError))
    /\ UNCHANGED <<K8sCluster, LBClusters, outputDirectory, data, kubeconfigAsString,
                   dirs, entry, runs>>

\* mutant: the kubeconfig read is stored even when it is empty
updateKubeconfigAlways(cluster, read) == [cluster EXCEPT !.Kubeconfig = read]

\* if len(kubeconfigAsString) > 0 { k.K8sCluster.Kubeconfig = kubeconfigAsString }
updateKubeconfig(cluster, read) ==
    IF Len(read) > 0 THEN [cluster EXCEPT !.Kubeconfig = read] ELSE cluster

\* the kubeconfig file is read (a missing file is an error) and
\* k.K8sCluster.Kubeconfig updated
readKubeconfigFromFile(b) ==
    /\ pc[b] = "readKubeconfigFromFile"
    /\ \E ok \in BOOLEAN :
          /\ ok => fileExists(outputDirectory[b], kubeconfigFileName(K8sCluster[b].Name))
          /\ IF ok
             THEN LET read == files[<<outputDirectory[b],
                                      kubeconfigFileName(K8sCluster[b].Name)>>]
                  IN /\ kubeconfigAsString' = [kubeconfigAsString EXCEPT ![b] = read]
                     /\ K8sCluster' = [K8sCluster EXCEPT ![b] = updateKubeconfig(@, read)]
                     /\ goto(b, "RemoveAll")
             ELSE /\ UNCHANGED <<kubeconfigAsString, K8sCluster>>
                  /\ return(b, Errorf("error while reading cluster-config in",
                                      outputDirectory[b], ioError))
          /\ ran(b, "read", ok)
    /\ UNCHANGED <<LBClusters, outputDirectory, data, dirs, files, entry, runs>>

\* Clean up - remove generated files, and return nil
RemoveAll(b) ==
    /\ pc[b] = "RemoveAll"
    /\ \E ok \in BOOLEAN :
          /\ OsRemoveAll(outputDirectory[b], ok)
          /\ ran(b, "remove", ok)
          /\ IF ok
             THEN return(b, nil)
             ELSE return(b, Errorf("error while removing files from",
                                   outputDirectory[b], ioError))
    /\ UNCHANGED <<K8sCluster, LBClusters, outputDirectory, data, kubeconfigAsString,
                   entry, runs>>

Next ==
    \E b \in Builds :
        \/ BuildCluster(b)
        \/ LoadTemplate(b)
        \/ generateTemplateData(b)
        \/ Generate(b)
        \/ CreateKeyFile(b)
        \/ WriteFile(b)
        \/ Apply(b)
        \/ readKubeconfigFromFile(b)
        \/ RemoveAll(b)

----------------------------------------------------------------------------
(* The clusters and load balancers a caller may hand to KubeEleven *)

RECURSIVE Sum(_, _)
Sum(s, k) == IF k = 0 THEN 0 ELSE s[k] + Sum(s, k - 1)

\* how many nodes each pool holds: at most MaxPools pools, MaxNodes nodes in all
PoolSizes ==
    UNION {{s \in [1..k -> 0..MaxNodes] : Sum(s, k) <= MaxNodes} : k \in 0..MaxPools}

\* the node pools with these sizes and these node types, in pool-then-node order
MkNodePools(name, hash, sizes, types) ==
    [p \in 1..Len(sizes) |->
       [Name |-> "pool" \o ToString(p),
        Nodes |-> [n \in 1..sizes[p] |->
                     [Name |-> clusterID(name, hash) \o "-pool" \o ToString(p)
                                 \o "-" \o ToString(n),
                      Public |-> "10.0." \o ToString(p) \o "." \o ToString(n),
                      NodeType |-> types[Sum(sizes, p - 1) + n]]]]]

NodePoolInputs(name, hash) ==
    UNION {{MkNodePools(name, hash, sizes, types) :
              types \in [1..Sum(sizes, Len(sizes)) -> NodeTypes]} : sizes \in PoolSizes}

\* the roles a load-balancer cluster may carry
RoleLists ==
    {<<[RoleType |-> RoleType_Ingress]>>,
     <<[RoleType |-> RoleType_Ingress], [RoleType |-> RoleType_ApiServer]>>}

\* the load-balancer clusters: each targets `name` or another cluster, and has
\* its own DNS endpoint
LBInputs(name) ==
    UNION {{[i \in 1..k |->
               [TargetedK8S |-> tr[i][1],
                Roles |-> tr[i][2],
                Dns |-> [Endpoint |-> "lb" \o ToString(i) \o ".example.com"]]] :
              tr \in [1..k -> {name, "other"} \X RoleLists]} : k \in 0..MaxLBs}

\* a KubeEleven no build runs on
noCluster ==
    [Name |-> "", Hash |-> "", PrivateKey |-> "", NodePools |-> << >>, Kubeconfig |-> ""]

----------------------------------------------------------------------------
(* Endpoint resolution alone: generateTemplateData on every cluster and    *)
(* every list of load balancers                                            *)

InitResolve ==
    \E nodePools \in NodePoolInputs("c1", "h1"), lbs \in LBInputs("c1") :
        /\ K8sCluster = [b \in Builds |->
                           IF b = 1
                           THEN [Name |-> "c1", Hash |-> "h1", PrivateKey |-> "private key",
                                 NodePools |-> nodePools, Kubeconfig |-> ""]
                           ELSE noCluster]
        /\ LBClusters = [b \in Builds |-> IF b = 1 THEN lbs ELSE << >>]
        /\ entry = K8sCluster
        /\ outputDirectory = [b \in Builds |-> ""]
        /\ pc = [b \in Builds |-> IF b = 1 THEN "generateTemplateData" ELSE "off"]
        /\ err = [b \in Builds |-> nil]
        /\ data = [b \in Builds |-> noData]
        /\ kubeconfigAsString = [b \in Builds |-> ""]
        /\ dirs = {}
        /\ files = << >>
        /\ trace = [b \in Builds |-> << >>]
        /\ runs = [b \in Builds |-> 0]

\* generateTemplateData is called again on the cluster as the first call left it
generateTemplateDataAgain(b) ==
    /\ pc[b] = "Generate"
    /\ data' = [data EXCEPT ![b] = templateDataOf(K8sCluster[b], LBClusters[b])]
    /\ K8sCluster' = [K8sCluster EXCEPT
                        ![b] = clusterAfterTemplateData(K8sCluster[b], LBClusters[b])]
    /\ pc' = [pc EXCEPT ![b] = "generatedAgain"]
    /\ UNCHANGED <<LBClusters, outputDirectory, err, kubeconfigAsString, dirs, files,
                   trace, entry, runs>>

NextResolve ==
    \E b \in Builds :
        \/ generateTemplateData(b)
        \/ generateTemplateDataAgain(b)

SpecResolve == InitResolve /\ [][NextResolve]_vars

----------------------------------------------------------------------------
(* Endpoint resolution: what the claims speak of *)

\* generateTemplateData has just returned
ResolveDone(b) == pc[b] = "Generate"

\* the load-balancer cluster targets the cluster and carries an ApiServer role
TargetsWithApiServer(lb, name) ==
    lb.TargetedK8S = name /\ RoleType_ApiServer \in {lb.Roles[r].RoleType : r \in DOMAIN lb.Roles}

NoQualifyingLB(b) ==
    \A i \in DOMAIN LBClusters[b] : ~TargetsWithApiServer(LBClusters[b][i], entry[b].Name)

\* the positions of the nodes, and pool-then-node order on them
NodePositions(nodePools) ==
    UNION {{<<p, n>> : n \in DOMAIN nodePools[p].Nodes} : p \in DOMAIN nodePools}

Before(q, r) == q[1] < r[1] \/ (q[1] = r[1] /\ q[2] < r[2])

NodesOfType(nodePools, t) ==
    {q \in NodePositions(nodePools) : nodePools[q[1]].Nodes[q[2]].NodeType = t}

PublicOf(nodePools, q) == nodePools[q[1]].Nodes[q[2]].Public

\* the node pools with the node at q tagged api-endpoint and nothing else changed
Promoted(nodePools, q) ==
    [p \in DOMAIN nodePools |->
       [nodePools[p] EXCEPT !.Nodes =
          [n \in DOMAIN nodePools[p].Nodes |->
             IF <<p, n>> = q
             THEN [nodePools[p].Nodes[n] EXCEPT !.NodeType = NodeType_apiEndpoint]
             ELSE nodePools[p].Nodes[n]]]]

\* C1: when some attached load balancer targets the cluster and carries an
\* ApiServer role, the resolved endpoint is the DNS endpoint of the first such
\* load balancer in input order, and no node's role changes.
C1_FirstQualifyingLBWins ==
    \A b \in Builds :
        (ResolveDone(b) /\ ~NoQualifyingLB(b)) =>
            /\ \E i \in DOMAIN LBClusters[b] :
                  /\ TargetsWithApiServer(LBClusters[b][i], entry[b].Name)
                  /\ \A j \in 1..(i - 1) :
                        ~TargetsWithApiServer(LBClusters[b][j], entry[b].Name)
                  /\ data[b].APIEndpoint = LBClusters[b][i].Dns.Endpoint
            /\ K8sCluster[b].NodePools = entry[b].NodePools

\* C1 witness: the second load balancer is the first that qualifies, the first
\* one carries an ApiServer role for another cluster, and the cluster has a master.
C1_Witness ==
    \E b \in Builds :
        /\ ResolveDone(b)
        /\ Len(LBClusters[b]) = 2
        /\ LBClusters[b][1].TargetedK8S # entry[b].Name
        /\ TargetsWithApiServer(LBClusters[b][1], LBClusters[b][1].TargetedK8S)
        /\ TargetsWithApiServer(LBClusters[b][2], entry[b].Name)
        /\ NodesOfType(entry[b].NodePools, NodeType_master) # {}
        /\ data[b].APIEndpoint = "lb2.example.com"

\* C2: with no qualifying load balancer and no node tagged api-endpoint, but a
\* master node, the endpoint is the public address of the first master in
\* pool-then-node order, that node becomes api-endpoint and no other node changes.
C2_FirstMasterPromoted ==
    \A b \in Builds :
        (/\ ResolveDone(b)
         /\ NoQualifyingLB(b)
         /\ NodesOfType(entry[b].NodePools, NodeType_apiEndpoint) = {}
         /\ NodesOfType(entry[b].NodePools, NodeType_master) # {}) =>
            \E q \in NodesOfType(entry[b].NodePools, NodeType_master) :
                /\ \A r \in NodesOfType(entry[b].NodePools, NodeType_master) :
                      ~Before(r, q)
                /\ data[b].APIEndpoint = PublicOf(entry[b].NodePools, q)
                /\ K8sCluster[b].NodePools = Promoted(entry[b].NodePools, q)

\* C2 witness: a worker, then two masters in different pools; the first master
\* was promoted and the later one was not.
C2_Witness ==
    \E b \in Builds :
        /\ ResolveDone(b)
        /\ NoQualifyingLB(b)
        /\ Len(LBClusters[b]) > 0
        /\ NodesOfType(entry[b].NodePools, NodeType_apiEndpoint) = {}
        /\ NodesOfType(entry[b].NodePools, NodeType_worker) = {<<1, 1>>}
        /\ NodesOfType(entry[b].NodePools, NodeType_master) = {<<1, 2>>, <<2, 1>>}
        /\ NodesOfType(K8sCluster[b].NodePools, NodeType_apiEndpoint) = {<<1, 2>>}
        /\ NodesOfType(K8sCluster[b].NodePools, NodeType_master) = {<<2, 1>>}
        /\ data[b].APIEndpoint = "10.0.1.2"

\* C3 as stated: with no qualifying load balancer and a node tagged
\* api-endpoint, the endpoint is the public address of the FIRST tagged node in
\* pool-then-node order (no later node displaces it) and no role changes.
C3_FirstTaggedKept ==
    \A b \in Builds :
        (/\ ResolveDone(b)
         /\ NoQualifyingLB(b)
         /\ NodesOfType(entry[b].NodePools, NodeType_apiEndpoint) # {}) =>
            \E q \in NodesOfType(entry[b].NodePools, NodeType_apiEndpoint) :
                /\ \A r \in NodesOfType(entry[b].NodePools, NodeType_apiEndpoint) :
                      ~Before(r, q)
                /\ data[b].APIEndpoint = PublicOf(entry[b].NodePools, q)
                /\ K8sCluster[b].NodePools = entry[b].NodePools

\* C3 amended: with no qualifying load balancer and a node tagged api-endpoint,
\* the endpoint is the public address of the LAST tagged node in pool-then-node
\* order (a later tagged node displaces an earlier one, a master never does, and
\* a tagged node displaces a master adopted earlier), and no role changes.
C3_LastTaggedKept ==
    \A b \in Builds :
        (/\ ResolveDone(b)
         /\ NoQualifyingLB(b)
         /\ NodesOfType(entry[b].NodePools, NodeType_apiEndpoint) # {}) =>
            \E q \in NodesOfType(entry[b].NodePools, NodeType_apiEndpoint) :
                /\ \A r \in NodesOfType(entry[b].NodePools, NodeType_apiEndpoint) :
                      ~Before(q, r)
                /\ data[b].APIEndpoint = PublicOf(entry[b].NodePools, q)
                /\ K8sCluster[b].NodePools = entry[b].NodePools

\* C3 witness: a master, then two tagged nodes in different pools: the master
\* adopted first was displaced, and the endpoint is the later tagged node's.
C3_Witness ==
    \E b \in Builds :
        /\ ResolveDone(b)
        /\ NoQualifyingLB(b)
        /\ NodesOfType(entry[b].NodePools, NodeType_master) = {<<1, 1>>}
        /\ NodesOfType(entry[b].NodePools, NodeType_apiEndpoint) = {<<1, 2>>, <<2, 1>>}
        /\ data[b].APIEndpoint = "10.0.2.1"
        /\ K8sCluster[b].NodePools = entry[b].NodePools

\* C4 as stated: with no qualifying load balancer and no master node, the
\* resolved endpoint is the empty string.
C4_NoMasterEmptyEndpoint ==
    \A b \in Builds :
        (/\ ResolveDone(b)
         /\ NoQualifyingLB(b)
         /\ NodesOfType(entry[b].NodePools, NodeType_master) = {}) =>
            data[b].APIEndpoint = ""

\* C4 amended: with no qualifying load balancer and no node that is master or
\* tagged api-endpoint, the resolved endpoint is the empty string.
C4_NoCandidateEmptyEndpoint ==
    \A b \in Builds :
        (/\ ResolveDone(b)
         /\ NoQualifyingLB(b)
         /\ NodesOfType(entry[b].NodePools, NodeType_master) = {}
         /\ NodesOfType(entry[b].NodePools, NodeType_apiEndpoint) = {}) =>
            data[b].APIEndpoint = ""

\* C4 witness: worker nodes only and a load balancer that does not qualify.
C4_Witness ==
    \E b \in Builds :
        /\ ResolveDone(b)
        /\ NoQualifyingLB(b)
        /\ Len(LBClusters[b]) > 0
        /\ Cardinality(NodesOfType(entry[b].NodePools, NodeType_worker)) = 2
        /\ NodesOfType(entry[b].NodePools, NodeType_master) = {}
        /\ NodesOfType(entry[b].NodePools, NodeType_apiEndpoint) = {}
        /\ data[b].APIEndpoint = ""

\* C5 as stated: after resolution at most one node of the cluster is tagged
\* api-endpoint, whatever the input cluster.
C5_AtMostOneTagged ==
    \A b \in Builds :
        ResolveDone(b) =>
            Cardinality(NodesOfType(K8sCluster[b].NodePools, NodeType_apiEndpoint)) <= 1

\* C5 amended: when at most one node of the input cluster is tagged
\* api-endpoint, at most one node is tagged after resolution.
C5_AtMostOneTaggedKept ==
    \A b \in Builds :
        (/\ ResolveDone(b)
         /\ Cardinality(NodesOfType(entry[b].NodePools, NodeType_apiEndpoint)) <= 1) =>
            Cardinality(NodesOfType(K8sCluster[b].NodePools, NodeType_apiEndpoint)) <= 1

\* C5 witness: an input with one tagged node and a master before and after it,
\* no load balancer: one node is tagged after resolution.
C5_Witness ==
    \E b \in Builds :
        /\ ResolveDone(b)
        /\ LBClusters[b] = << >>
        /\ NodesOfType(entry[b].NodePools, NodeType_master) = {<<1, 1>>, <<1, 3>>}
        /\ NodesOfType(entry[b].NodePools, NodeType_apiEndpoint) = {<<1, 2>>}
        /\ NodesOfType(K8sCluster[b].NodePools, NodeType_apiEndpoint) = {<<1, 2>>}

----------------------------------------------------------------------------
(* One KubeEleven, built again and again by its caller *)

\* the most nodes of the cluster of a whole build
MaxBuildNodes == 2

BuildNodePoolInputs(name, hash) ==
    {np \in NodePoolInputs(name, hash) :
        Len(np) <= 1 /\ \A p \in DOMAIN np : Len(np[p].Nodes) <= MaxBuildNodes}

BuildLBInputs(name) == {lbs \in LBInputs(name) : Len(lbs) <= 1}

\* the (name, hash) pairs of the clusters built
ClusterIdents == {<<"c1", "h1">>, <<"c1-x", "h1">>, <<"c1", "x-h1">>}

InitWith(clusters, lbss) ==
    /\ K8sCluster = clusters
    /\ LBClusters = lbss
    /\ entry = clusters
    /\ outputDirectory = [b \in Builds |-> ""]
    /\ pc = [b \in Builds |-> IF clusters[b] = noCluster THEN "off" ELSE "idle"]
    /\ err = [b \in Builds |-> nil]
    /\ data = [b \in Builds |-> noData]
    /\ kubeconfigAsString = [b \in Builds |-> ""]
    /\ dirs = {}
    /\ files = << >>
    /\ trace = [b \in Builds |-> << >>]
    /\ runs = [b \in Builds |-> 0]

Init ==
    \E nodePools \in BuildNodePoolInputs("c1", "h1"), lbs \in BuildLBInputs("c1"),
       kubeconfig \in {"", "kc-old"} :
        InitWith([b \in Builds |->
                    IF b = 1
                    THEN [Name |-> "c1", Hash |-> "h1", PrivateKey |-> "private key",
                          NodePools |-> nodePools, Kubeconfig |-> kubeconfig]
                    ELSE noCluster],
                 [b \in Builds |-> IF b = 1 THEN lbs ELSE << >>])

Spec == Init /\ [][Next]_vars

----------------------------------------------------------------------------
(* Several KubeElevens built concurrently, each with its own cluster *)

InitConc ==
    \E idents \in [Builds -> ClusterIdents] :
        InitWith([b \in Builds |->
                    [Name |-> idents[b][1], Hash |-> idents[b][2],
                     PrivateKey |-> "private key",
                     NodePools |-> MkNodePools(idents[b][1], idents[b][2], <<1>>,
                                               <<NodeType_master>>),
                     Kubeconfig |-> ""]],
                 [b \in Builds |-> << >>])

SpecConc == InitConc /\ [][Next]_vars

----------------------------------------------------------------------------
(* BuildCluster: what the claims speak of *)

Returned(b) == pc[b] = "returned"

\* the stage ran in this build, with this outcome
Ran(b, stage, ok) == \E i \in DOMAIN trace[b] : trace[b][i] = [stage |-> stage, ok |-> ok]

Started(b, stage) == Ran(b, stage, TRUE) \/ Ran(b, stage, FALSE)

FilesIn(dir) == {f \in DOMAIN files : f[1] = dir}

\* C6: when kubeone Apply fails, BuildCluster returns an error that wraps the
\* tool's error and names the working directory; the directory is not removed,
\* the kubeconfig file is not read back and the Kubeconfig field is as it was.
C6_ApplyFailure ==
    \A b \in Builds :
        Ran(b, "apply", FALSE) =>
            /\ Returned(b)
            /\ err[b] = [msg |-> "error while running kubeone apply in",
                         ctx |-> Join3(baseDirectory, outputDirectoryName,
                                       entry[b].Name \o "-" \o entry[b].Hash),
                         wraps |-> toolError]
            /\ ~Started(b, "remove")
            /\ err[b].ctx \in dirs
            /\ ~Started(b, "read")
            /\ kubeconfigAsString[b] = ""
            /\ K8sCluster[b].Kubeconfig = entry[b].Kubeconfig

\* C6 witness: a build of a cluster that had a kubeconfig returned the error of
\* the failed tool, its files still in the directory.
C6_Witness ==
    \E b \in Builds :
        /\ Returned(b)
        /\ Ran(b, "apply", FALSE)
        /\ err[b].wraps = toolError
        /\ entry[b].Kubeconfig = "kc-old"
        /\ K8sCluster[b].Kubeconfig = "kc-old"
        /\ Cardinality(FilesIn(outputDirectory[b])) = 3

\* C7: when BuildCluster returns nil, the Kubeconfig field is the content read
\* from the kubeconfig file after the tool ran if that content is non-empty, and
\* its value before the build if the file was empty; an empty file is no error.
C7_KubeconfigOnSuccess ==
    \A b \in Builds :
        /\ pc[b] = "RemoveAll" =>
             kubeconfigAsString[b] =
                files[<<outputDirectory[b], entry[b].Name \o "-kubeconfig">>]
        /\ (pc[b] = "RemoveAll" \/ (Returned(b) /\ err[b] = nil)) =>
             K8sCluster[b].Kubeconfig =
                IF kubeconfigAsString[b] # "" THEN kubeconfigAsString[b]
                ELSE entry[b].Kubeconfig

\* C7 witness: the tool left the kubeconfig file empty, BuildCluster returned
\* nil and the cluster kept the kubeconfig it had.
C7_Witness ==
    \E b \in Builds :
        /\ Returned(b)
        /\ err[b] = nil
        /\ Ran(b, "read", TRUE)
        /\ kubeconfigAsString[b] = ""
        /\ entry[b].Kubeconfig = "kc-old"
        /\ K8sCluster[b].Kubeconfig = "kc-old"

\* the statements of BuildCluster at which the build uses its working directory
InDirectory == {"CreateKeyFile", "WriteFile", "Apply", "readKubeconfigFromFile", "RemoveAll"}

\* C8: two builds whose (cluster name, hash) pairs differ have different working
\* directories, and no build removes a directory another build is using.
C8_DistinctDirectories ==
    \A b1, b2 \in Builds :
        (/\ b1 # b2
         /\ runs[b1] > 0 /\ runs[b2] > 0
         /\ <<K8sCluster[b1].Name, K8sCluster[b1].Hash>>
              # <<K8sCluster[b2].Name, K8sCluster[b2].Hash>>) =>
            /\ outputDirectory[b1] # outputDirectory[b2]
            /\ pc[b1] \in InDirectory => outputDirectory[b1] \in dirs

\* the stages of a build, in the order of the code
StageOrder == <<"manifest", "key", "kubeconfig", "apply", "read", "remove">>

\* C9: the stages run in the fixed order manifest, key, kubeconfig seed, tool,
\* read-back, cleanup; each at most once per build and only after every earlier
\* one succeeded; after the first failure nothing more runs and BuildCluster
\* returns a wrapped error; cleanup is entered only when all earlier stages
\* succeeded, and BuildCluster returns nil only when all six succeeded.
C9_StagesInOrder ==
    \A b \in Builds :
        /\ Len(trace[b]) <= Len(StageOrder)
        /\ \A i \in DOMAIN trace[b] :
              /\ trace[b][i].stage = StageOrder[i]
              /\ i < Len(trace[b]) => trace[b][i].ok
        /\ \A i \in DOMAIN trace[b] :
              ~trace[b][i].ok =>
                 /\ Returned(b)
                 /\ err[b] # nil
                 /\ "wraps" \in DOMAIN err[b]
        /\ (Returned(b) /\ err[b] # nil) =>
              trace[b] = << >> \/ ~trace[b][Len(trace[b])].ok
        /\ (Returned(b) /\ err[b] = nil) =>
              /\ Len(trace[b]) = Len(StageOrder)
              /\ \A i \in DOMAIN trace[b] : trace[b][i].ok

\* C9 witness: a build that failed at the read-back after four stages succeeded.
C9_Witness ==
    \E b \in Builds :
        /\ Returned(b)
        /\ Len(trace[b]) = 5
        /\ Ran(b, "apply", TRUE)
        /\ Ran(b, "read", FALSE)
        /\ err[b] # nil

\* C10: when file materialization begins, the working directory holds no file
\* left by an earlier build.
C10_DirectoryEmptyAtGenerate ==
    \A b \in Builds :
        pc[b] = "Generate" => FilesIn(outputDirectory[b]) = {}

\* C11: BuildCluster returns nil only after the working directory was removed
\* with all it held; on a failing return from file generation, the tool or the
\* read-back, removal was not attempted, and a directory that was created is
\* still there, with the files written so far.
C11_DirectoryLifetime ==
    \A b \in Builds :
        /\ (Returned(b) /\ err[b] = nil) =>
              /\ Ran(b, "remove", TRUE)
              /\ outputDirectory[b] \notin dirs
              /\ FilesIn(outputDirectory[b]) = {}
        /\ (Returned(b) /\ err[b] # nil /\ ~Ran(b, "remove", FALSE)) =>
              /\ ~Started(b, "remove")
              /\ Ran(b, "manifest", TRUE) =>
                    /\ outputDirectory[b] \in dirs
                    /\ <<outputDirectory[b], generatedKubeoneManifestName>> \in DOMAIN files

\* C11 witness: a build failed at the read-back, after the directory was
\* created and the tool ran: the directory and its three files are still there.
C11_Witness ==
    \E b \in Builds :
        /\ Returned(b)
        /\ Ran(b, "read", FALSE)
        /\ outputDirectory[b] \in dirs
        /\ Cardinality(FilesIn(outputDirectory[b])) = 3

\* the cluster the build was entered with has no qualifying load balancer and
\* no master or api-endpoint node
Unresolvable(b) ==
    /\ NoQualifyingLB(b)
    /\ NodesOfType(entry[b].NodePools, NodeType_master) = {}
    /\ NodesOfType(entry[b].NodePools, NodeType_apiEndpoint) = {}

\* the statements of BuildCluster after generateTemplateData
AfterTemplateData == {"Generate"} \cup InDirectory

\* the innermost error an error wraps
RECURSIVE Cause(_)
Cause(e) == IF "wraps" \in DOMAIN e THEN Cause(e.wraps) ELSE e

\* C12: an endpoint that cannot be resolved is no error: the view holds the
\* empty endpoint, the manifest is generated from it, every error the build
\* returns is the error of a collaborator (template, file system, tool), and a
\* build whose file generation succeeded invokes the tool.
C12_UnresolvedEndpointNoError ==
    \A b \in Builds :
        Unresolvable(b) =>
            /\ (pc[b] \in AfterTemplateData \/ (Returned(b) /\ trace[b] # << >>)) =>
                  /\ data[b].APIEndpoint = ""
                  /\ data[b].ClusterName = entry[b].Name
            /\ Ran(b, "manifest", TRUE) /\ pc[b] \in {"CreateKeyFile", "WriteFile", "Apply"} =>
                  files[<<outputDirectory[b], generatedKubeoneManifestName>>]
                     = "name: " \o entry[b].Name \o " endpoint: "
            /\ (Returned(b) /\ err[b] # nil) =>
                  /\ Cause(err[b]) \in {templateError, ioError, toolError}
                  /\ trace[b] = << >> =>
                        err[b].wraps.msg = "error while loading a kubeone template"
            /\ (Ran(b, "kubeconfig", TRUE) /\ ~Started(b, "apply")) => pc[b] = "Apply"

\* C12 witness: a cluster of workers only, with a load balancer that does not
\* qualify: the tool was invoked, and succeeded, on the empty endpoint.
C12_Witness ==
    \E b \in Builds :
        /\ Unresolvable(b)
        /\ Len(LBClusters[b]) = 1
        /\ NodesOfType(entry[b].NodePools, NodeType_worker) # {}
        /\ data[b].APIEndpoint = ""
        /\ Ran(b, "apply", TRUE)

TypeOf(nodePools, q) == nodePools[q[1]].Nodes[q[2]].NodeType

\* the nodes whose role is not the one the build was entered with
RoleChanged(b) ==
    {q \in NodePositions(entry[b].NodePools) :
        TypeOf(K8sCluster[b].NodePools, q) # TypeOf(entry[b].NodePools, q)}

\* C13: within one build at most one node's role changes, and the only change
\* is master to api-endpoint: no worker is promoted, no api-endpoint node is
\* changed, and no node appears or disappears.
C13_OnlyOnePromotion ==
    \A b \in Builds :
        /\ NodePositions(K8sCluster[b].NodePools) = NodePositions(entry[b].NodePools)
        /\ Cardinality(RoleChanged(b)) <= 1
        /\ \A q \in RoleChanged(b) :
              /\ TypeOf(entry[b].NodePools, q) = NodeType_master
              /\ TypeOf(K8sCluster[b].NodePools, q) = NodeType_apiEndpoint

\* C13 witness: a build of a worker and a master returned: the master is now
\* api-endpoint and the worker is a worker.
C13_Witness ==
    \E b \in Builds :
        /\ Returned(b)
        /\ NodesOfType(entry[b].NodePools, NodeType_worker) = {<<1, 1>>}
        /\ NodesOfType(entry[b].NodePools, NodeType_master) = {<<1, 2>>}
        /\ RoleChanged(b) = {<<1, 2>>}
        /\ NodesOfType(K8sCluster[b].NodePools, NodeType_worker) = {<<1, 1>>}

\* C14: resolving a second time right after a first resolution returns the
\* endpoint the first one returned and changes no node role.
C14_ResolveIdempotent ==
    [][\A b \in Builds :
          (pc[b] = "Generate" /\ pc'[b] = "generatedAgain") =>
              /\ data'[b].APIEndpoint = data[b].APIEndpoint
              /\ K8sCluster'[b].NodePools = K8sCluster[b].NodePools]_vars

\* C14 witness: two masters and no load balancer, resolved twice: the first
\* master was promoted by the first resolution and is the endpoint of both.
C14_Witness ==
    \E b \in Builds :
        /\ pc[b] = "generatedAgain"
        /\ LBClusters[b] = << >>
        /\ NodesOfType(entry[b].NodePools, NodeType_master) = {<<1, 1>>, <<2, 1>>}
        /\ NodesOfType(K8sCluster[b].NodePools, NodeType_apiEndpoint) = {<<1, 1>>}
        /\ NodesOfType(K8sCluster[b].NodePools, NodeType_master) = {<<2, 1>>}
        /\ data[b].APIEndpoint = "10.0.1.1"

\* C15: the view holds one node-pool entry per node pool of the cluster, in the
\* order of the pools, and each entry lists the nodes of its pool, as many and
\* in the same order, a pool with no nodes included.
C15_ViewKeepsPoolsAndNodes ==
    \A b \in Builds :
        ResolveDone(b) =>
            /\ Len(data[b].Nodepools) = Len(entry[b].NodePools)
            /\ \A p \in DOMAIN entry[b].NodePools :
                  /\ data[b].Nodepools[p].NodepoolName = entry[b].NodePools[p].Name
                  /\ Len(data[b].Nodepools[p].Nodes) = Len(entry[b].NodePools[p].Nodes)
                  /\ \A n \in DOMAIN entry[b].NodePools[p].Nodes :
                        /\ data[b].Nodepools[p].Nodes[n].Node = <<p, n>>
                        /\ entry[b].Name \o "-" \o entry[b].Hash \o "-"
                              \o data[b].Nodepools[p].Nodes[n].Name
                           = entry[b].NodePools[p].Nodes[n].Name

\* C15 witness: a first pool with no nodes and a second pool with two nodes:
\* the view holds an empty first entry and the two nodes in the second.
C15_Witness ==
    \E b \in Builds :
        /\ ResolveDone(b)
        /\ Len(entry[b].NodePools) = 2
        /\ Len(entry[b].NodePools[1].Nodes) = 0
        /\ Len(data[b].Nodepools[1].Nodes) = 0
        /\ data[b].Nodepools[2].NodepoolName = "pool2"
        /\ Len(data[b].Nodepools[2].Nodes) = 2
        /\ data[b].Nodepools[2].Nodes[2].Name = "pool2-2"

----------------------------------------------------------------------------
(* Display names: generateTemplateData on clusters whose one node has a    *)
(* full name with the prefix, without it, or with it twice                 *)

\* the full names a node of cluster (name, hash) may have
NodeNameInputs(name, hash) ==
    LET prefix == name \o "-" \o hash \o "-"
    IN {"", "n1", "pool1-1", prefix, prefix \o "n1", prefix \o "pool1-1",
        prefix \o prefix, prefix \o prefix \o "n1", "x" \o prefix \o "n1",
        name \o "-n1", name \o "-" \o hash, hash \o "-" \o name \o "-n1"}

InitNames ==
    \E ident \in ClusterIdents, t \in NodeTypes :
        \E full \in NodeNameInputs(ident[1], ident[2]) :
            /\ K8sCluster = [b \in Builds |->
                               IF b = 1
                               THEN [Name |-> ident[1], Hash |-> ident[2],
                                     PrivateKey |-> "private key",
                                     NodePools |->
                                        <<[Name |-> "pool1",
                                           Nodes |-> <<[Name |-> full,
                                                        Public |-> "10.0.1.1",
                                                        NodeType |-> t]>>]>>,
                                     Kubeconfig |-> ""]
                               ELSE noCluster]
            /\ LBClusters = [b \in Builds |-> << >>]
            /\ entry = K8sCluster
            /\ outputDirectory = [b \in Builds |-> ""]
            /\ pc = [b \in Builds |-> IF b = 1 THEN "generateTemplateData" ELSE "off"]
            /\ err = [b \in Builds |-> nil]
            /\ data = [b \in Builds |-> noData]
            /\ kubeconfigAsString = [b \in Builds |-> ""]
            /\ dirs = {}
            /\ files = << >>
            /\ trace = [b \in Builds |-> << >>]
            /\ runs = [b \in Builds |-> 0]

SpecNames == InitNames /\ [][NextResolve]_vars

\* s begins with prefix
HasPrefix(s, prefix) == Len(s) >= Len(prefix) /\ SubSeq(s, 1, Len(prefix)) = prefix

\* C16: the display name is the full name without the prefix
\* "<clusterName>-<clusterHash>-", or the full name when it has no such prefix,
\* and stripping the prefix from a display name that lacks it changes nothing.
C16_DisplayNameIdempotent ==
    \A b \in Builds :
        ResolveDone(b) =>
            \A p \in DOMAIN entry[b].NodePools :
                \A n \in DOMAIN entry[b].NodePools[p].Nodes :
                    LET prefix == entry[b].Name \o "-" \o entry[b].Hash \o "-"
                        full == entry[b].NodePools[p].Nodes[n].Name
                        shown == data[b].Nodepools[p].Nodes[n].Name
                    IN /\ IF HasPrefix(full, prefix)
                          THEN prefix \o shown = full
                          ELSE shown = full
                       /\ ~HasPrefix(shown, prefix) => TrimPrefix(shown, prefix) = shown

\* C16 witness: a full name with the prefix was stripped to a display name that
\* lacks it, at least as long as the prefix, and stripping it again leaves it.
C16_Witness ==
    \E b \in Builds :
        /\ ResolveDone(b)
        /\ entry[b].Name = "c1" /\ entry[b].Hash = "h1"
        /\ entry[b].NodePools[1].Nodes[1].Name = "c1-h1-pool1-1"
        /\ data[b].Nodepools[1].Nodes[1].Name = "pool1-1"
        /\ TrimPrefix(data[b].Nodepools[1].Nodes[1].Name, "c1-h1-") = "pool1-1"

----------------------------------------------------------------------------
(* The Kubeconfig field when BuildCluster returns an error *)

Failed(b) == Returned(b) /\ err[b] # nil

\* C17 as stated: whenever BuildCluster returns an error, at whichever stage,
\* the cluster's Kubeconfig field equals its value before the build.
C17_KubeconfigUnchangedOnError ==
    \A b \in Builds :
        Failed(b) => K8sCluster[b].Kubeconfig = entry[b].Kubeconfig

\* C17 amended: on an error from file generation, the tool or the read-back
\* the Kubeconfig field equals its value before the build; on the error of
\* removing the working directory it holds the content read back when that is
\* not empty, and its value before the build when it is empty.
C17_KubeconfigOnError ==
    \A b \in Builds :
        Failed(b) =>
            IF Ran(b, "remove", FALSE)
            THEN K8sCluster[b].Kubeconfig =
                    IF kubeconfigAsString[b] # ""
                    THEN kubeconfigAsString[b]
                    ELSE entry[b].Kubeconfig
            ELSE K8sCluster[b].Kubeconfig = entry[b].Kubeconfig

\* C17 witness: the removal failed after a kubeconfig was read back and stored
C17_Witness ==
    \E b \in Builds :
        /\ Failed(b)
        /\ Ran(b, "remove", FALSE)
        /\ entry[b].Kubeconfig = "kc-old"
        /\ K8sCluster[b].Kubeconfig = "kc-new"

----------------------------------------------------------------------------
(* When the promotion happens, and that it stays *)

\* the build was entered with a cluster whose endpoint is found by promotion
Promotable(b) ==
    /\ NoQualifyingLB(b)
    /\ NodesOfType(entry[b].NodePools, NodeType_apiEndpoint) = {}
    /\ NodesOfType(entry[b].NodePools, NodeType_master) # {}

\* the first master, in pool-then-node order, of the cluster the build was entered with
FirstMaster(b) ==
    CHOOSE q \in NodesOfType(entry[b].NodePools, NodeType_master) :
        \A r \in NodesOfType(entry[b].NodePools, NodeType_master) : ~Before(r, q)

\* generateFiles failed at templateLoader.LoadTemplate: no stage has run
FailedAtLoadTemplate(b) == Failed(b) /\ trace[b] = << >>

\* C18: no node role changes before the view is assembled, nor in a build that
\* fails at template loading; once the view is assembled the first master is
\* tagged api-endpoint, before any file is written or the tool invoked, and it
\* stays tagged at every later statement and when BuildCluster returns, with an
\* error of any later stage or without.
C18_PromotionEarlyAndKept ==
    \A b \in Builds :
        /\ pc[b] \in {"LoadTemplate", "generateTemplateData"} =>
              K8sCluster[b].NodePools = entry[b].NodePools
        /\ FailedAtLoadTemplate(b) => K8sCluster[b].NodePools = entry[b].NodePools
        /\ (/\ Promotable(b)
            /\ \/ pc[b] \in AfterTemplateData
               \/ Returned(b) /\ ~FailedAtLoadTemplate(b)) =>
              /\ K8sCluster[b].NodePools = Promoted(entry[b].NodePools, FirstMaster(b))
              /\ pc[b] = "Generate" => trace[b] = << >>

\* C18 witness: the tool failed in a build entered with a worker and a master,
\* and the master is tagged api-endpoint at the return.
C18_Witness ==
    \E b \in Builds :
        /\ Failed(b)
        /\ Ran(b, "apply", FALSE)
        /\ Promotable(b)
        /\ NodesOfType(entry[b].NodePools, NodeType_master) = {<<1, 2>>}
        /\ NodesOfType(K8sCluster[b].NodePools, NodeType_apiEndpoint) = {<<1, 2>>}
====
